---- MODULE Spec2Model ----
(***************************************************************************)
(* A model of the lie_groups package (src/lie_groups/src/lie_groups):      *)
(*   geodesic.py  compute_distance_matrix, isomap_embedding,               *)
(*                geodesic_embedding                                       *)
(*   core.py      random_su, random_sun, matrix_log,                       *)
(*                bi_invariant_distance, random_sln_real                   *)
(*   weyl.py      su3_alcove_coords                                        *)
(*                                                                         *)
(* The package is a library of synchronous functions.  Each family of      *)
(* functions has its own specification: the initial states are the calls   *)
(* (function and arguments, drawn from bounded sets) and the actions are   *)
(* the steps of the called function.                                       *)
(*                                                                         *)
(*   Spec        geodesic.py: the distance matrix loop and the dispatcher  *)
(*   SpecCore    core.py: the samplers and the Hermitian logarithm         *)
(*   SpecMetric  core.py: bi_invariant_distance on triples U, V, W         *)
(*   SpecWeyl    weyl.py: su3_alcove_coords on U and V U V^dagger          *)
(*   SpecAlcove  weyl.py: sun_alcove_coords, weyl_chamber_projection, and  *)
(*               su3_alcove_coords beside them                             *)
(*   SpecCartan  cartan.py: cartan_projection, iwasawa_decomposition       *)
(*   SpecQuality geodesic.py: analyze_embedding_quality                    *)
(***************************************************************************)
EXTENDS Integers, Sequences, FiniteSets

VARIABLES
    pc,     \* position in the called function
    inp,    \* the call: function name and arguments
    out,    \* what the call returned or raised
    i,      \* outer loop index (0-based, as in the source)
    j,      \* inner loop index
    D,      \* the matrix np.zeros((n, n)) being filled
    calls   \* the calls made so far to the callee under observation

vars == <<pc, inp, out, i, j, D, calls>>

NoValue == [kind |-> "none"]

\* The element of a one-element set.  Only({e(v) : v \in {x}}) is e(x) with
\* x evaluated once, like a local variable of the source.
Only(S) == CHOOSE v \in S : TRUE

(***************************************************************************)
(* geodesic.py                                                             *)
(***************************************************************************)

\* largest number of elements handed to compute_distance_matrix
MaxK == 3
\* the injected distance function returns a value in 0..MaxDist
MaxDist == 2

\* method strings a caller may pass; the last two are not known to the code
Methods == {"isomap", "mds", "pca", "tsne", ""}

\* D = np.zeros((n, n))
Zeros(n) == [p \in (0..(n-1)) \X (0..(n-1)) |-> 0]

\* a faulty variant of AssignPair: the mirrored cell is not written
AssignUpperOnly(M, a, b, d) == [M EXCEPT ![<<a, b>>] = d]

\* D[i, j] = D[j, i] = d
AssignPair(M, a, b, d) == [M EXCEPT ![<<a, b>>] = d, ![<<b, a>>] = d]

\* a faulty variant of InnerStart: the inner loop starts on the diagonal
InnerStartDiag(a) == a

\* for j in range(i+1, n): the first j
InnerStart(a) == a + 1

\* a faulty variant of Branch: an unknown method falls through to the first branch
BranchDefaulting(method) ==
    IF method \in {"mds", "pca"} THEN method ELSE "isomap"

\* the if / elif / else chain of geodesic_embedding
Branch(method) ==
    IF method = "isomap" THEN "isomap"
    ELSE IF method = "mds" THEN "mds"
    ELSE IF method = "pca" THEN "pca"
    ELSE "unknown"

\* the elements handed to geodesic_embedding are n x n matrices, of real or
\* complex dtype, n in 1..MaxElemDim; entry (r, c) of element e has the real
\* part <<"re", e, r, c>> and the imaginary part <<"im", e, r, c>>
MaxElemDim == 2

Element(e, n) ==
    [r \in 1..n |-> [c \in 1..n |-> [re |-> <<"re", e, r, c>>, im |-> <<"im", e, r, c>>]]]

\* g.flatten(): row after row
Flatten(g) ==
    [p \in 1..(Len(g) * Len(g)) |-> g[((p - 1) \div Len(g)) + 1][((p - 1) % Len(g)) + 1]]

\* X.real
RealPart(X) == [e \in 1..Len(X) |-> [p \in 1..Len(X[e]) |-> X[e][p].re]]

\* X.imag
ImagPart(X) == [e \in 1..Len(X) |-> [p \in 1..Len(X[e]) |-> X[e][p].im]]

\* a faulty variant of Hstack: the two blocks are interleaved entry by entry
HstackInterleaved(A, B) ==
    [e \in 1..Len(A) |->
        [p \in 1..(2 * Len(A[e])) |->
            IF p % 2 = 1 THEN A[e][(p + 1) \div 2] ELSE B[e][p \div 2]]]

\* np.hstack([A, B]): the rows of A followed by the rows of B
Hstack(A, B) == [e \in 1..Len(A) |-> A[e] \o B[e]]

\* the array handed to PCA: X = np.array([g.flatten() for g in elements]),
\* and np.hstack([X.real, X.imag]) if X is a complex array (the empty array
\* is not)
PcaFeatures(k, n, complex) ==
    Only({IF complex /\ k > 0 THEN Hstack(RealPart(X), ImagPart(X)) ELSE RealPart(X) :
            X \in {[e \in 1..k |-> Flatten(Element(e, n))]}})

InitGeodesic ==
    /\ inp \in [fn : {"compute_distance_matrix"}, method : {"-"}, k : 0..MaxK]
               \cup [fn : {"geodesic_embedding"}, method : Methods, k : 0..MaxK,
                     n : 1..MaxElemDim, complex : BOOLEAN]
    /\ pc = "entry"
    /\ out = NoValue
    /\ i = 0
    /\ j = 0
    /\ D = <<>>
    /\ calls = <<>>

\* geodesic_embedding, method "isomap" or "mds": the call that builds the
\* distance matrix is entered (isomap_embedding does so in its first line)
GeodesicToDistances ==
    /\ pc = "entry"
    /\ inp.fn = "geodesic_embedding"
    /\ Branch(inp.method) \in {"isomap", "mds"}
    /\ pc' = "cdm"
    /\ UNCHANGED <<inp, out, i, j, D, calls>>

\* geodesic_embedding, method "pca": the elements are flattened and handed
\* to sklearn's PCA, which returns one row per element or raises
GeodesicPca ==
    /\ pc = "entry"
    /\ inp.fn = "geodesic_embedding"
    /\ Branch(inp.method) = "pca"
    /\ pc' = "done"
    /\ \E ok \in BOOLEAN :
          out' = [kind |-> IF ok THEN "embedding" ELSE "library_error",
                  rows |-> inp.k,
                  X    |-> PcaFeatures(inp.k, inp.n, inp.complex)]
    /\ UNCHANGED <<inp, i, j, D, calls>>

\* geodesic_embedding, any other method: raise ValueError
GeodesicUnknown ==
    /\ pc = "entry"
    /\ inp.fn = "geodesic_embedding"
    /\ Branch(inp.method) = "unknown"
    /\ pc' = "raised"
    /\ out' = [kind |-> "ValueError"]
    /\ UNCHANGED <<inp, i, j, D, calls>>

\* compute_distance_matrix: n = len(elements); D = np.zeros((n, n));
\* the outer loop starts at i = 0
DistancesEnter ==
    /\ \/ pc = "entry" /\ inp.fn = "compute_distance_matrix"
       \/ pc = "cdm"
    /\ pc' = "loop"
    /\ D' = Zeros(inp.k)
    /\ i' = 0
    /\ j' = InnerStart(0)
    /\ UNCHANGED <<inp, out, calls>>

\* one pass of the inner loop: d = distance_func(elements[i], elements[j]);
\* D[i, j] = D[j, i] = d
DistancesPair ==
    /\ pc = "loop"
    /\ i < inp.k
    /\ j < inp.k
    /\ \E d \in 0..MaxDist :
          D' = AssignPair(D, i, j, d)
    /\ calls' = Append(calls, <<i, j>>)
    /\ j' = j + 1
    /\ UNCHANGED <<pc, inp, out, i>>

\* the inner loop is exhausted: next i
DistancesNextRow ==
    /\ pc = "loop"
    /\ i < inp.k
    /\ j >= inp.k
    /\ i' = i + 1
    /\ j' = InnerStart(i + 1)
    /\ UNCHANGED <<pc, inp, out, D, calls>>

\* return D: to the caller of compute_distance_matrix, or to the embedding
\* that asked for it
DistancesReturn ==
    /\ pc = "loop"
    /\ i >= inp.k
    /\ IF inp.fn = "compute_distance_matrix"
       THEN pc' = "done" /\ out' = [kind |-> "matrix"]
       ELSE pc' = "fit" /\ out' = out
    /\ UNCHANGED <<inp, i, j, D, calls>>

\* Isomap(...).fit_transform(D) or MDS(...).fit_transform(D): sklearn
\* returns one row per element or raises
GeodesicFit ==
    /\ pc = "fit"
    /\ pc' = "done"
    /\ \E ok \in BOOLEAN :
          out' = IF ok THEN [kind |-> "embedding", rows |-> inp.k]
                       ELSE [kind |-> "library_error"]
    /\ UNCHANGED <<inp, i, j, D, calls>>

NextGeodesic ==
    \/ GeodesicToDistances
    \/ GeodesicPca
    \/ GeodesicUnknown
    \/ DistancesEnter
    \/ DistancesPair
    \/ DistancesNextRow
    \/ DistancesReturn
    \/ GeodesicFit

Spec == InitGeodesic /\ [][NextGeodesic]_vars

\* compute_distance_matrix has returned D (to its caller or to an embedding)
DistancesReturned ==
    \/ pc = "fit"
    \/ pc = "done" /\ inp.fn = "compute_distance_matrix"
    \/ pc = "done" /\ inp.method \in {"isomap", "mds"}

Idx == 0..(inp.k - 1)

\* C1: the matrix compute_distance_matrix returns for k elements and a
\* non-negative distance function is k x k, symmetric, zero on the diagonal
\* and has no negative entry.
C1_DistanceMatrixShape ==
    DistancesReturned =>
        /\ DOMAIN D = Idx \X Idx
        /\ \A a \in Idx : \A b \in Idx : D[<<a, b>>] = D[<<b, a>>]
        /\ \A a \in Idx : D[<<a, a>>] = 0
        /\ \A a \in Idx : \A b \in Idx : D[<<a, b>>] >= 0

\* a returned matrix over MaxK elements with a non-zero, mirrored entry
C1_Witness ==
    /\ DistancesReturned
    /\ inp.k = MaxK
    /\ D[<<0, MaxK - 1>>] = MaxDist
    /\ D[<<MaxK - 1, 0>>] = MaxDist

CallSet == {calls[c] : c \in 1..Len(calls)}

\* C2: the distance function is called exactly k(k-1)/2 times, once for each
\* pair (a, b) with a < b, never for a = b or a > b; the lower triangle
\* mirrors the upper one and the diagonal is never written.
C2_UpperTriangleCalls ==
    /\ \A c \in 1..Len(calls) : calls[c][1] < calls[c][2]
    /\ \A c \in 1..Len(calls) : \A e \in 1..Len(calls) :
          calls[c] = calls[e] => c = e
    /\ DistancesReturned =>
          /\ 2 * Len(calls) = inp.k * (inp.k - 1)
          /\ CallSet = {p \in Idx \X Idx : p[1] < p[2]}
          /\ \A a \in Idx : \A b \in Idx : a > b => D[<<a, b>>] = D[<<b, a>>]
    /\ pc \in {"loop", "fit", "done"} /\ D # <<>> => \A a \in Idx : D[<<a, a>>] = 0

\* MaxK elements: all MaxK(MaxK-1)/2 pairs have been asked for
C2_Witness ==
    /\ DistancesReturned
    /\ inp.k = MaxK
    /\ 2 * Len(calls) = MaxK * (MaxK - 1)

\* C5: geodesic_embedding with a method other than "isomap", "mds", "pca"
\* raises ValueError for every input list, the empty one included, and never
\* calls the distance function.
C5_UnknownMethodRaises ==
    (inp.fn = "geodesic_embedding" /\ inp.method \notin {"isomap", "mds", "pca"})
        => /\ calls = <<>>
           /\ pc \in {"entry", "raised"}
           /\ pc = "raised" => out = [kind |-> "ValueError"]

\* the unknown method met with the empty list
C5_Witness ==
    /\ pc = "raised"
    /\ inp.k = 0
    /\ inp.method = "tsne"

\* C17: geodesic_embedding with method "pca" never calls the distance
\* function and builds no distance matrix, and turns each n x n complex
\* element into a real feature vector of length 2 n^2: all real parts, then
\* all imaginary parts; with "isomap" and "mds" the distance matrix is built
\* exactly once.
C17_PcaSkipsDistances ==
    /\ (inp.fn = "geodesic_embedding" /\ inp.method = "pca") =>
          /\ calls = <<>>
          /\ D = <<>>
          /\ pc \in {"entry", "done"}
          /\ (pc = "done" /\ inp.complex) =>
                /\ Len(out.X) = inp.k
                /\ \A e \in 1..inp.k :
                      /\ Len(out.X[e]) = 2 * inp.n * inp.n
                      /\ \A r \in 1..inp.n : \A c \in 1..inp.n :
                            /\ out.X[e][(r - 1) * inp.n + c] = <<"re", e, r, c>>
                            /\ out.X[e][inp.n * inp.n + (r - 1) * inp.n + c] = <<"im", e, r, c>>
    /\ (inp.fn = "geodesic_embedding" /\ inp.method \in {"isomap", "mds"} /\ pc = "done") =>
          /\ DOMAIN D = Idx \X Idx
          /\ 2 * Len(calls) = inp.k * (inp.k - 1)

\* MaxK complex elements of the largest dimension went through "pca"
C17_Witness ==
    /\ pc = "done"
    /\ inp.fn = "geodesic_embedding"
    /\ inp.method = "pca"
    /\ inp.complex
    /\ inp.k = MaxK
    /\ inp.n = MaxElemDim
    /\ Len(out.X[MaxK]) = 2 * MaxElemDim * MaxElemDim
    /\ calls = <<>>

(***************************************************************************)
(* Unitary matrices                                                        *)
(*                                                                         *)
(* The matrices of the model are the monomial unitary matrices: one entry  *)
(* of modulus 1 in every column.  A matrix A of dimension n is the record  *)
(* [perm, ph] with A e_c = exp(2 pi i ph[c] / PhaseMod) e_perm[c]: the     *)
(* entry of column c stands in row perm[c] and has phase ph[c].  They are  *)
(* closed under the matrix product and the conjugate transpose, and their  *)
(* eigenvalues are known exactly, so that every step of the source is      *)
(* computed exactly, in integers.                                          *)
(***************************************************************************)

\* random_su(n) is called for n in 2..MaxDim
MaxDim == 3
\* the entries drawn are the PhaseLevels-th roots of unity
PhaseLevels == 4

RECURSIVE Fact(_)
Fact(n) == IF n <= 1 THEN 1 ELSE n * Fact(n - 1)

\* every dimension and every cycle length divides RootDiv
RootDiv == Fact(MaxDim)
\* phases are integers modulo PhaseMod, in units of 2 pi / PhaseMod
PhaseMod == 2 * RootDiv * PhaseLevels
\* eigenvalue angles are integers modulo AngleMod, in units of 2 pi / AngleMod
AngleMod == PhaseMod * RootDiv
\* the phases of the entries drawn
DrawnPhases == {(PhaseMod \div PhaseLevels) * c : c \in 0..(PhaseLevels - 1)}

Perms(n) == {p \in [1..n -> 1..n] : \A a \in 1..n : \A b \in 1..n : p[a] = p[b] => a = b}

\* the monomial unitary n x n matrices with drawn phases
Mono(n) == {[perm |-> p, ph |-> q] : p \in Perms(n), q \in [1..n -> DrawnPhases]}

Dim(A) == Len(A.perm)

Identity(n) == [perm |-> [c \in 1..n |-> c], ph |-> [c \in 1..n |-> 0]]

\* A @ B
Mul(A, B) ==
    [perm |-> [c \in 1..Dim(B) |-> A.perm[B.perm[c]]],
     ph   |-> [c \in 1..Dim(B) |-> (B.ph[c] + A.ph[B.perm[c]]) % PhaseMod]]

\* the column of A whose entry stands in row r
ColOfRow(A, r) == CHOOSE c \in 1..Dim(A) : A.perm[c] = r

\* A.conj().T
ConjT(A) ==
    [perm |-> [r \in 1..Dim(A) |-> ColOfRow(A, r)],
     ph   |-> [r \in 1..Dim(A) |-> (PhaseMod - A.ph[ColOfRow(A, r)]) % PhaseMod]]

\* A / exp(2 pi i r / PhaseMod): division by a scalar of modulus 1
DivPhase(A, r) ==
    [perm |-> A.perm,
     ph   |-> [c \in 1..Dim(A) |-> (A.ph[c] - r) % PhaseMod]]

RECURSIVE SumOver(_, _)
SumOver(f, S) ==
    IF S = {} THEN 0
    ELSE LET x == CHOOSE y \in S : TRUE IN f[x] + SumOver(f, S \ {x})

\* the permutation is odd
Odd(p) ==
    Cardinality({q \in (DOMAIN p) \X (DOMAIN p) : q[1] < q[2] /\ p[q[1]] > p[q[2]]}) % 2 = 1

\* the phase of det(A), in units of 2 pi / PhaseMod
DetPhase(A) ==
    (SumOver(A.ph, 1..Dim(A)) + (IF Odd(A.perm) THEN PhaseMod \div 2 ELSE 0)) % PhaseMod

RECURSIVE Iter(_, _, _)
Iter(p, c, t) == IF t = 0 THEN c ELSE Iter(p, p[c], t - 1)

\* the cycle of the permutation through column c
Orbit(p, c) == {Iter(p, c, t) : t \in 0..(Len(p) - 1)}

\* The eigenvalues of A (the w of la.eig): on a cycle of length l whose
\* phases sum to s, A^l = exp(2 pi i s / PhaseMod), so the cycle carries the
\* l eigenvalues of angle 2 pi (s + PhaseMod m) / (PhaseMod l), m = 0..l-1.
\* EigAngle(A, c) is the one of column c, the m-th column of its cycle.
EigAngle(A, c) ==
    Only({(((SumOver(A.ph, O) % PhaseMod) + PhaseMod * Cardinality({x \in O : x < c}))
             * (RootDiv \div Cardinality(O))) % AngleMod :
            O \in {Orbit(A.perm, c)}})

\* a faulty variant of Principal: the angle is taken in [0, 2 pi)
PrincipalUnsigned(a) == a % AngleMod

\* np.angle: the angle in (-pi, pi]
Principal(a) ==
    LET r == a % AngleMod
    IN  IF 2 * r > AngleMod THEN r - AngleMod ELSE r

\* np.angle(w) for the eigenvalues w of A, in the order la.eig returns them:
\* order is a permutation of 1..n
Angles(A, order) == [c \in 1..Dim(A) |-> Principal(EigAngle(A, order[c]))]

(***************************************************************************)
(* core.py: matrix_log (general unitary branch) and bi_invariant_distance  *)
(***************************************************************************)

\* the dimension of the matrices of the metric tests and of SU(3)
Three == 3

\* the elements of SU(3) among the matrices of the model
SU3 == {A \in Mono(Three) : DetPhase(A) = 0}

\* matrix_log(W): L = V diag(1j * ang) inv(V).  L is normal with the
\* eigenvalues 1j * ang, so L is given here by ang (in eigenvalue order).
MatrixLogAngles(W) == Angles(W, [c \in 1..Dim(W) |-> c])

\* la.norm(L, 'fro') squared: the sum of the squared moduli of the
\* eigenvalues of the normal matrix L, in units of (2 pi / AngleMod)^2.
\* Distances are non-negative, so they are equal exactly when their squares
\* are.
FroSquared(x) ==
    Only({SumOver([c \in DOMAIN ang |-> ang[c] * ang[c]], DOMAIN ang) : ang \in {x}})

\* a faulty variant of Relative: the conjugate transpose is forgotten
RelativeNoConj(A, B) == Mul(A, B)

\* W = U.conj().T @ V
Relative(A, B) == Mul(ConjT(A), B)

\* bi_invariant_distance(U, V), squared
Distance2(A, B) == FroSquared(MatrixLogAngles(Relative(A, B)))

InitMetric ==
    /\ inp \in [fn : {"bi_invariant_distance"}, U : SU3, V : SU3, W : SU3]
    /\ pc = "entry"
    /\ out = NoValue
    /\ i = 0
    /\ j = 0
    /\ D = <<>>
    /\ calls = <<>>

\* the four distances of test_distance_symmetry and test_distance_invariance
MetricEval ==
    /\ pc = "entry"
    /\ inp.fn = "bi_invariant_distance"
    /\ pc' = "done"
    /\ out' = [kind  |-> "distances",
               d     |-> Distance2(inp.U, inp.V),
               rev   |-> Distance2(inp.V, inp.U),
               left  |-> Distance2(Mul(inp.W, inp.U), Mul(inp.W, inp.V)),
               right |-> Distance2(Mul(inp.U, inp.W), Mul(inp.V, inp.W))]
    /\ UNCHANGED <<inp, i, j, D, calls>>

NextMetric == MetricEval

SpecMetric == InitMetric /\ [][NextMetric]_vars

\* C3: bi_invariant_distance is left- and right-invariant:
\* distance(W U, W V) = distance(U, V) = distance(U W, V W).
C3_BiInvariance ==
    pc = "done" => out.left = out.d /\ out.right = out.d

\* a translation W that is not diagonal and does not commute with U^dagger V,
\* at a non-zero distance
C3_Witness ==
    /\ pc = "done"
    /\ out.d > 0
    /\ inp.W.perm # Identity(Three).perm
    /\ Mul(Relative(inp.U, inp.V), inp.W) # Mul(inp.W, Relative(inp.U, inp.V))
    /\ out.left = out.d
    /\ out.right = out.d

\* half a turn: the angle pi of np.angle
Pi == AngleMod \div 2

\* C4: bi_invariant_distance is symmetric, distance(U, V) = distance(V, U),
\* also when U^dagger V has an eigenvalue of angle exactly pi.
C4_Symmetry ==
    pc = "done" => out.rev = out.d

\* U^dagger V has the eigenvalue -1 (angle pi) and an eigenvalue off the
\* real axis, whose angle changes sign when U and V are exchanged
C4_Witness ==
    /\ pc = "done"
    /\ out.rev = out.d
    /\ \E c \in 1..Three : MatrixLogAngles(Relative(inp.U, inp.V))[c] = Pi
    /\ \E c \in 1..Three : MatrixLogAngles(Relative(inp.V, inp.U))[c] = Pi
    /\ \E c \in 1..Three :
          MatrixLogAngles(Relative(inp.U, inp.V))[c] \notin {0, Pi}

(***************************************************************************)
(* weyl.py: su3_alcove_coords                                              *)
(***************************************************************************)

\* the place of s[c] in the ascending order of s (ties in index order)
Rank(s, c) ==
    1 + Cardinality({e \in 1..Len(s) : s[e] < s[c] \/ (s[e] = s[c] /\ e < c)})

\* np.sort(angles): ascending
SortAsc(x) ==
    Only({[r \in 1..Len(s) |-> s[CHOOSE c \in 1..Len(s) : Rank(s, c) = r]] : s \in {x}})

\* a faulty variant of SortDesc: the angles are left in eigenvalue order
Unsorted(s) == s

\* a faulty variant of SortDesc: the reversal [::-1] is left out
SortNotReversed(x) == SortAsc(x)

\* np.sort(angles)[::-1]: descending
SortDesc(x) ==
    Only({[c \in 1..Len(a) |-> a[Len(a) + 1 - c]] : a \in {SortAsc(x)}})

\* angles -= angles.mean(), times the number of angles (which keeps the
\* values integers): n * angle - sum
Centred(x) ==
    Only({[c \in 1..Len(ang) |-> Len(ang) * ang[c] - total] :
            <<ang, total>> \in {<<x, SumOver(x, 1..Len(x))>>}})

\* su3_alcove_coords(U) with la.eig returning the eigenvalues in the given
\* order: (e1, e2), in units of 2 pi / (3 AngleMod)
Su3AlcoveCoords(A, order) ==
    Only({<<angles[1] - angles[2], angles[2] - angles[3]>> :
            angles \in {SortDesc(Centred(Angles(A, order)))}})

\* V @ U @ V.conj().T
Conjugate(V, A) == Mul(Mul(V, A), ConjT(V))

InitWeyl ==
    /\ inp \in [fn : {"su3_alcove_coords"}, U : SU3, V : SU3]
    /\ pc = "entry"
    /\ out = NoValue
    /\ i = 0
    /\ j = 0
    /\ D = <<>>
    /\ calls = <<>>

\* test_conjugate_matrices_same_coords: the coordinates of U and of
\* V U V^dagger; la.eig is free to return the eigenvalues in any order, in
\* each of the two calls
WeylEval ==
    /\ pc = "entry"
    /\ inp.fn = "su3_alcove_coords"
    /\ pc' = "done"
    /\ \E o1 \in Perms(Three) : \E o2 \in Perms(Three) :
          out' = [kind   |-> "coords",
                  coords |-> Su3AlcoveCoords(inp.U, o1),
                  conj   |-> Su3AlcoveCoords(Conjugate(inp.V, inp.U), o2)]
    /\ UNCHANGED <<inp, i, j, D, calls>>

NextWeyl == WeylEval

SpecWeyl == InitWeyl /\ [][NextWeyl]_vars

\* C10: alcove coordinates are conjugation-invariant,
\* su3_alcove_coords(U) = su3_alcove_coords(V U V^dagger), whatever the order
\* in which the eigenvalues are produced.
C10_ConjugationInvariant ==
    pc = "done" => out.coords = out.conj

\* V U V^dagger is another matrix than U, with three distinct eigenvalues
C10_Witness ==
    /\ pc = "done"
    /\ Conjugate(inp.V, inp.U) # inp.U
    /\ out.coords = out.conj
    /\ out.coords[1] > 0
    /\ out.coords[2] > 0

(***************************************************************************)
(* core.py: random_su, random_sun, random_sln_real, matrix_log (Hermitian) *)
(***************************************************************************)

\* random_sun(n, num_samples) is called for num_samples in 0..MaxSamples
MaxSamples == 3
\* the entries of the real matrices drawn lie in -MaxEntry..MaxEntry
MaxEntry == 2

\* np.angle of a determinant of modulus 1: its phase in (-pi, pi], in units
\* of 2 pi / PhaseMod
PrincipalPhase(p) ==
    IF 2 * (p % PhaseMod) > PhaseMod THEN (p % PhaseMod) - PhaseMod ELSE p % PhaseMod

\* a faulty variant of RootPhase: the exponent 1/n computed as an integer quotient
\* (1 // n = 0 for n >= 2), so that the divisor is det ** 0 = 1
RootPhaseFloorDiv(p, n) == IF n = 1 THEN p ELSE 0

\* the phase of la.det(U) ** (1/n), the principal n-th root of a number of
\* modulus 1 and principal phase p (n divides every phase that occurs)
RootPhase(p, n) == p \div n

\* the angles np.angle(np.diag(R)) drawn: 0 and pi (the Householder QR of
\* LAPACK returns an R with a real diagonal, of either sign)
RealPhases == {0, PhaseMod \div 2}

\* D = np.diag(np.exp(-1j * np.angle(np.diag(R)))) for a diagonal of R with
\* the phases rph
PhaseFix(rph) ==
    [perm |-> [c \in 1..Len(rph) |-> c],
     ph   |-> [c \in 1..Len(rph) |-> (PhaseMod - rph[c]) % PhaseMod]]

\* random_su(n) when la.qr(Z) returns the unitary Q and an R whose diagonal
\* has the phases rph:  U = Q @ D;  U /= la.det(U) ** (1/n)
RandomSu(Q, rph) ==
    Only({DivPhase(U, RootPhase(PrincipalPhase(DetPhase(U)), Dim(U))) :
            U \in {Mul(Q, PhaseFix(rph))}})

\* a faulty variant of IsSingle: the empty request is answered like the single one
IsSingleOrEmpty(k) == k <= 1

\* if num_samples == 1
IsSingle(k) == k = 1

\* the value returned by the c-th call of random_su(n)
Sample(n, c) == [dim |-> n, call |-> c]

\* the real monomial n x n matrices with entries in -MaxEntry..MaxEntry:
\* column c has the entry val[c] in row perm[c]
RealMono(n) ==
    {[perm |-> p, val |-> v] : p \in Perms(n), v \in [1..n -> (-MaxEntry)..MaxEntry]}

RECURSIVE ProdOver(_, _)
ProdOver(f, S) ==
    IF S = {} THEN 1
    ELSE LET x == CHOOSE y \in S : TRUE IN f[x] * ProdOver(f, S \ {x})

RECURSIVE Power(_, _)
Power(r, n) == IF n = 0 THEN 1 ELSE r * Power(r, n - 1)

\* np.linalg.det(A)
DetReal(A) ==
    (IF Odd(A.perm) THEN -1 ELSE 1) * ProdOver(A.val, 1..Len(A.val))

Abs(x) == IF x < 0 THEN -x ELSE x

\* the matrices whose determinant has an integer n-th root in modulus, so
\* that the root is computed exactly
HasRoot(d, n) == \E r \in 0..Abs(d) : Power(r, n) = Abs(d)

\* np.float64 d ** (1/n): for n = 1 the exponent is 1.0 and the result is d;
\* otherwise a negative base gives nan, zero gives 0.0, and a positive base
\* its real n-th root
FloatRoot(d, n) ==
    IF n = 1 THEN [kind |-> "num", val |-> d]
    ELSE IF d < 0 THEN [kind |-> "nan"]
    ELSE [kind |-> "num", val |-> CHOOSE r \in 0..d : Power(r, n) = d]

\* x / r in floating point: anything over nan is nan, 0/0 is nan, x/0 is
\* infinite; otherwise the quotient, kept as the fraction num / den
FloatDiv(x, r) ==
    IF r.kind = "nan" THEN [kind |-> "nan"]
    ELSE IF r.val = 0 THEN (IF x = 0 THEN [kind |-> "nan"] ELSE [kind |-> "inf"])
    ELSE [kind |-> "num", num |-> x, den |-> r.val]

\* random_sln_real(n) when np.random.randn(n, n) draws A:
\* A /= np.linalg.det(A) ** (1/n).  The result keeps the places of the
\* entries of A; its entries are those of A over the root.
RandomSlnReal(A) ==
    Only({[kind    |-> "matrix",
           perm    |-> A.perm,
           root    |-> r,
           entries |-> [c \in 1..Len(A.val) |-> FloatDiv(A.val[c], r)]] :
            r \in {FloatRoot(DetReal(A), Len(A.val))}})

\* the eigenvalue lists of the Hermitian matrices drawn: ascending, as
\* la.eigh returns them
Spectra(n) ==
    {w \in [1..n -> (-MaxEntry)..MaxEntry] : \A c \in 1..(n - 1) : w[c] <= w[c + 1]}

\* np.log of a real eigenvalue: nan below zero, -inf at zero
FloatLog(w) ==
    IF w < 0 THEN [kind |-> "nan"]
    ELSE IF w = 0 THEN [kind |-> "-inf"]
    ELSE [kind |-> "log", of |-> w]

\* matrix_log(U, hermitian=True) for U with the eigenvalues w:
\* L = V @ np.diag(np.log(w)) @ V.conj().T, returned; no check is made and
\* nothing is raised.  L is given by the logarithms on its diagonal in the
\* eigenbasis V; one of them not finite makes entries of L not finite.
MatrixLogHermitian(w) ==
    [kind |-> "matrix", logs |-> [c \in 1..Len(w) |-> FloatLog(w[c])]]

InitCore ==
    /\ inp \in  {[fn |-> "random_su", n |-> Dim(Q), Q |-> Q, rph |-> r] :
                    <<Q, r>> \in UNION {Mono(n) \X [1..n -> RealPhases] : n \in 2..MaxDim}}
          \cup  [fn : {"random_sun"}, n : 1..MaxDim, k : 0..MaxSamples]
          \cup  {[fn |-> "random_sln_real", n |-> Len(A.val), A |-> A] :
                    A \in UNION {{B \in RealMono(n) : HasRoot(DetReal(B), n)} : n \in 1..MaxDim}}
          \cup  {[fn |-> "matrix_log", hermitian |-> TRUE, n |-> Len(w), w |-> w] :
                    w \in UNION {Spectra(n) : n \in 1..MaxDim}}
    /\ pc = "entry"
    /\ out = NoValue
    /\ i = 0
    /\ j = 0
    /\ D = <<>>
    /\ calls = <<>>

\* random_su(n)
CoreRandomSu ==
    /\ pc = "entry"
    /\ inp.fn = "random_su"
    /\ pc' = "done"
    /\ out' = [kind |-> "matrix", U |-> RandomSu(inp.Q, inp.rph)]
    /\ UNCHANGED <<inp, i, j, D, calls>>

\* random_sun, num_samples == 1: return random_su(n)
CoreSunSingle ==
    /\ pc = "entry"
    /\ inp.fn = "random_sun"
    /\ IsSingle(inp.k)
    /\ pc' = "done"
    /\ calls' = Append(calls, inp.n)
    /\ out' = [kind |-> "matrix", U |-> Sample(inp.n, Len(calls) + 1)]
    /\ UNCHANGED <<inp, i, j, D>>

\* random_sun, otherwise: the list comprehension is entered
CoreSunEnter ==
    /\ pc = "entry"
    /\ inp.fn = "random_sun"
    /\ ~IsSingle(inp.k)
    /\ pc' = "comprehension"
    /\ i' = 0
    /\ out' = [kind |-> "building", items |-> <<>>]
    /\ UNCHANGED <<inp, j, D, calls>>

\* [random_su(n) for _ in range(num_samples)]: one more element
CoreSunDraw ==
    /\ pc = "comprehension"
    /\ i < inp.k
    /\ calls' = Append(calls, inp.n)
    /\ out' = [out EXCEPT !.items = Append(@, Sample(inp.n, Len(calls) + 1))]
    /\ i' = i + 1
    /\ UNCHANGED <<pc, inp, j, D>>

\* the range is exhausted: the list is returned
CoreSunReturn ==
    /\ pc = "comprehension"
    /\ i >= inp.k
    /\ pc' = "done"
    /\ out' = [out EXCEPT !.kind = "list"]
    /\ UNCHANGED <<inp, i, j, D, calls>>

\* random_sln_real(n)
CoreRandomSlnReal ==
    /\ pc = "entry"
    /\ inp.fn = "random_sln_real"
    /\ pc' = "done"
    /\ out' = RandomSlnReal(inp.A)
    /\ UNCHANGED <<inp, i, j, D, calls>>

\* matrix_log(U, hermitian=True)
CoreMatrixLog ==
    /\ pc = "entry"
    /\ inp.fn = "matrix_log"
    /\ inp.hermitian
    /\ pc' = "done"
    /\ out' = MatrixLogHermitian(inp.w)
    /\ UNCHANGED <<inp, i, j, D, calls>>

NextCore ==
    \/ CoreRandomSu
    \/ CoreSunSingle
    \/ CoreSunEnter
    \/ CoreSunDraw
    \/ CoreSunReturn
    \/ CoreRandomSlnReal
    \/ CoreMatrixLog

SpecCore == InitCore /\ [][NextCore]_vars

\* C6 as amended: random_sun(n, k) calls random_su exactly k times; for
\* k # 1 it returns the list of the k values in call order, and for k = 1
\* the single value itself, not a list.
C6_ListUnlessSingle ==
    (pc = "done" /\ inp.fn = "random_sun") =>
        /\ Len(calls) = inp.k
        /\ \A c \in 1..Len(calls) : calls[c] = inp.n
        /\ inp.k # 1 =>
              /\ out.kind = "list"
              /\ Len(out.items) = inp.k
              /\ \A c \in 1..inp.k : out.items[c] = Sample(inp.n, c)
        /\ inp.k = 1 =>
              /\ out.kind = "matrix"
              /\ out.U = Sample(inp.n, 1)

\* a list of MaxSamples elements has been returned
C6_Witness ==
    /\ pc = "done"
    /\ inp.fn = "random_sun"
    /\ inp.k = MaxSamples
    /\ out.kind = "list"
    /\ Len(out.items) = MaxSamples

\* C6 as stated: for every k >= 0, k = 1 included, random_sun(n, k) returns
\* an ordered sequence of exactly k elements from exactly k calls of
\* random_su.
C6_AlwaysList ==
    (pc = "done" /\ inp.fn = "random_sun") =>
        /\ Len(calls) = inp.k
        /\ out.kind = "list"
        /\ Len(out.items) = inp.k

\* C7: random_su(n) returns an n x n matrix U with U^dagger U = I and
\* det(U) = 1.
C7_SpecialUnitary ==
    (pc = "done" /\ inp.fn = "random_su") =>
        /\ Dim(out.U) = inp.n
        /\ Mul(ConjT(out.U), out.U) = Identity(inp.n)
        /\ DetPhase(out.U) = 0

\* dimension MaxDim, an odd permutation in Q, and a determinant of Q @ D
\* that is not 1 before the division
C7_Witness ==
    /\ pc = "done"
    /\ inp.fn = "random_su"
    /\ inp.n = MaxDim
    /\ Odd(inp.Q.perm)
    /\ DetPhase(Mul(inp.Q, PhaseFix(inp.rph))) # 0
    /\ out.U # Mul(inp.Q, PhaseFix(inp.rph))
    /\ DetPhase(out.U) = 0

\* every entry of the returned matrix is a finite number
AllFinite(M) == \A c \in 1..Len(M.entries) : M.entries[c].kind = "num"

\* the determinant of the returned matrix A / r is 1: det(A) = r^n
DetIsOne(M, A) ==
    /\ M.root.kind = "num"
    /\ M.root.val # 0
    /\ DetReal(A) = Power(M.root.val, Len(A.val))

\* C8: for every n >= 1 and every drawn matrix of non-zero determinant,
\* positive or negative, random_sln_real(n) returns a real matrix with
\* finite entries and determinant 1.
C8_DeterminantOne ==
    (pc = "done" /\ inp.fn = "random_sln_real" /\ DetReal(inp.A) # 0) =>
        /\ AllFinite(out)
        /\ DetIsOne(out, inp.A)

\* C9: matrix_log(U, hermitian=True) raises NonPositiveEigenvalue whenever
\* an eigenvalue of U is <= 0, and never returns a matrix with entries that
\* are not finite.
C9_RaisesOnNonPositive ==
    (pc = "done" /\ inp.fn = "matrix_log") =>
        /\ (\E c \in 1..inp.n : inp.w[c] <= 0) => out.kind = "NonPositiveEigenvalue"
        /\ out.kind = "matrix" => \A c \in 1..inp.n : out.logs[c].kind = "log"

(***************************************************************************)
(* weyl.py: sun_alcove_coords, weyl_chamber_projection                     *)
(***************************************************************************)

\* the elements of SU(n) among the matrices of the model
SUn(n) == {A \in Mono(n) : DetPhase(A) = 0}

\* np.diff(angles): angles[c+1] - angles[c]
Diff(x) ==
    Only({[c \in 1..(Len(a) - 1) |-> a[c + 1] - a[c]] : a \in {x}})

\* sun_alcove_coords(U) with la.eig returning the eigenvalues in the given
\* order, in units of 2 pi / (n AngleMod)
SunAlcoveCoords(A, order) == Diff(SortDesc(Centred(Angles(A, order))))

\* a faulty variant of ChamberBranch: every type is taken for type A
ChamberBranchAlwaysA(lie_type) == "A"

\* the if / else of weyl_chamber_projection
ChamberBranch(lie_type) == IF lie_type = "A" THEN "A" ELSE "unsupported"

\* Lie types a caller may pass
LieTypes == {"A", "B", "C", "D"}

\* omega * np.eye(n) for omega = exp(2 pi i w / PhaseMod)
Scalar(n, w) == [perm |-> [c \in 1..n |-> c], ph |-> [c \in 1..n |-> w % PhaseMod]]

\* the phases of the cube roots of unity other than 1
CubeRoots == {PhaseMod \div 3, 2 * (PhaseMod \div 3)}

InitAlcove ==
    /\ inp \in  {[fn |-> "sun_alcove_coords", n |-> Dim(A), U |-> A] :
                    A \in UNION {SUn(n) : n \in 2..MaxDim}}
          \cup  [fn : {"weyl_chamber_projection"}, lie_type : LieTypes, g : SU3]
          \cup  [fn : {"both_alcove_coords"}, U : Mono(Three)]
          \cup  [fn : {"alcove_periodicity"}, U : SU3, w : CubeRoots]
    /\ pc = "entry"
    /\ out = NoValue
    /\ i = 0
    /\ j = 0
    /\ D = <<>>
    /\ calls = <<>>

\* sun_alcove_coords(U)
AlcoveSun ==
    /\ pc = "entry"
    /\ inp.fn = "sun_alcove_coords"
    /\ pc' = "done"
    /\ \E o \in Perms(inp.n) :
          out' = [kind |-> "coords", coords |-> SunAlcoveCoords(inp.U, o)]
    /\ UNCHANGED <<inp, i, j, D, calls>>

\* weyl_chamber_projection(g, "A"): return sun_alcove_coords(g)
AlcoveChamberA ==
    /\ pc = "entry"
    /\ inp.fn = "weyl_chamber_projection"
    /\ ChamberBranch(inp.lie_type) = "A"
    /\ pc' = "done"
    /\ calls' = Append(calls, "sun_alcove_coords")
    /\ \E o \in Perms(Dim(inp.g)) :
          out' = [kind |-> "coords", coords |-> SunAlcoveCoords(inp.g, o)]
    /\ UNCHANGED <<inp, i, j, D>>

\* weyl_chamber_projection(g, lie_type), any other type:
\* raise NotImplementedError
AlcoveChamberOther ==
    /\ pc = "entry"
    /\ inp.fn = "weyl_chamber_projection"
    /\ ChamberBranch(inp.lie_type) = "unsupported"
    /\ pc' = "raised"
    /\ out' = [kind |-> "NotImplementedError"]
    /\ UNCHANGED <<inp, i, j, D, calls>>

\* su3_alcove_coords(U) and sun_alcove_coords(U) on the same 3 x 3 matrix
AlcoveBoth ==
    /\ pc = "entry"
    /\ inp.fn = "both_alcove_coords"
    /\ pc' = "done"
    /\ \E o1 \in Perms(Three) : \E o2 \in Perms(Three) :
          out' = [kind |-> "both",
                  su3  |-> Su3AlcoveCoords(inp.U, o1),
                  sun  |-> SunAlcoveCoords(inp.U, o2)]
    /\ UNCHANGED <<inp, i, j, D, calls>>

\* test_alcove_periodicity: su3_alcove_coords of U and of
\* (omega * np.eye(3)) @ U
AlcovePeriodicity ==
    /\ pc = "entry"
    /\ inp.fn = "alcove_periodicity"
    /\ pc' = "done"
    /\ \E o1 \in Perms(Three) : \E o2 \in Perms(Three) :
          out' = [kind    |-> "coords",
                  coords  |-> Su3AlcoveCoords(inp.U, o1),
                  shifted |-> Su3AlcoveCoords(Mul(Scalar(Three, inp.w), inp.U), o2)]
    /\ UNCHANGED <<inp, i, j, D, calls>>

NextAlcove ==
    \/ AlcoveSun
    \/ AlcoveChamberA
    \/ AlcoveChamberOther
    \/ AlcoveBoth
    \/ AlcovePeriodicity

SpecAlcove == InitAlcove /\ [][NextAlcove]_vars

\* C11: for every n >= 2 and every SU(n) input, sun_alcove_coords returns a
\* vector of length n-1 whose every entry is non-negative.
C11_SunCoordsNonNegative ==
    (pc = "done" /\ inp.fn = "sun_alcove_coords") =>
        /\ Len(out.coords) = inp.n - 1
        /\ \A c \in 1..Len(out.coords) : out.coords[c] >= 0

\* the eigenvalue angles of U, the angle of omega added, that pass pi and
\* are wrapped to the other end of (-pi, pi]
Wrapped(A, w) ==
    {c \in 1..Dim(A) : Principal(EigAngle(A, c)) + w * RootDiv > Pi}

\* C12: multiplication by a centre element omega I, omega a cube root of
\* unity, is not always absorbed: su3_alcove_coords(omega U) can differ from
\* su3_alcove_coords(U), and when it does the uniform angle shift has wrapped
\* some but not all eigenvalue angles across the branch boundary.
C12_CentreShiftWraps ==
    (pc = "done" /\ inp.fn = "alcove_periodicity" /\ out.shifted # out.coords) =>
        /\ Wrapped(inp.U, inp.w) # {}
        /\ Wrapped(inp.U, inp.w) # 1..Three

\* a U whose coordinates change under multiplication by omega I
C12_Witness ==
    /\ pc = "done"
    /\ inp.fn = "alcove_periodicity"
    /\ out.shifted # out.coords
    /\ Cardinality(Wrapped(inp.U, inp.w)) \in {1, 2}

\* C13: weyl_chamber_projection(g, lie_type) returns exactly
\* sun_alcove_coords(g) for lie_type "A", and for every other lie_type raises
\* NotImplementedError without computing any coordinates.
C13_ChamberDispatch ==
    (inp.fn = "weyl_chamber_projection" /\ pc # "entry") =>
        IF inp.lie_type = "A"
        THEN /\ pc = "done"
             /\ calls = <<"sun_alcove_coords">>
             /\ out = [kind   |-> "coords",
                       coords |-> SunAlcoveCoords(inp.g, [c \in 1..Dim(inp.g) |-> c])]
        ELSE /\ pc = "raised"
             /\ calls = <<>>
             /\ out = [kind |-> "NotImplementedError"]

\* an unsupported type has been refused
C13_Witness ==
    /\ pc = "raised"
    /\ inp.fn = "weyl_chamber_projection"
    /\ inp.lie_type = "B"
    /\ out.kind = "NotImplementedError"

\* 2 pi in the units of the coordinates of a 3 x 3 matrix
TwoPi3 == Three * AngleMod

\* C18: for every 3 x 3 unitary input both coordinates of su3_alcove_coords
\* are non-negative and at most 2 pi in absolute value.
C18_Su3CoordsBounded ==
    (pc = "done" /\ inp.fn = "both_alcove_coords") =>
        \A c \in 1..2 : out.su3[c] >= 0 /\ out.su3[c] <= TwoPi3

\* a unitary matrix outside SU(3) with two distinct positive coordinates
C18_Witness ==
    /\ pc = "done"
    /\ inp.fn = "both_alcove_coords"
    /\ DetPhase(inp.U) # 0
    /\ out.su3[1] > 0
    /\ out.su3[2] > out.su3[1]

\* C20: on 3 x 3 inputs sun_alcove_coords(U) equals su3_alcove_coords(U)
\* component by component.
C20_SunEqualsSu3 ==
    (pc = "done" /\ inp.fn = "both_alcove_coords") => out.sun = out.su3

(***************************************************************************)
(* cartan.py: cartan_projection, iwasawa_decomposition                     *)
(***************************************************************************)

\* Real n x n matrices are sequences of rows.  The orthogonal factors of the
\* model are the permutation matrices; singular values and the entries of R
\* are integers up to MaxEntry.

\* the permutation matrix with a 1 in row p[c] of column c
PermMatrix(p) ==
    [r \in 1..Len(p) |-> [c \in 1..Len(p) |-> IF p[c] = r THEN 1 ELSE 0]]

Orthogonal(n) == {PermMatrix(p) : p \in Perms(n)}

\* X @ Y
DenseMul(X, Y) ==
    Only({[r \in 1..Len(a) |->
            [c \in 1..Len(a) |->
                SumOver([k \in 1..Len(a) |-> a[r][k] * b[k][c]], 1..Len(a))]] :
            <<a, b>> \in {<<X, Y>>}})

\* np.diag(s)
Diag(s) ==
    [r \in 1..Len(s) |-> [c \in 1..Len(s) |-> IF r = c THEN s[r] ELSE 0]]

\* a faulty variant of ArgsortDesc: the reversal [::-1] is left out
ArgsortAsc(S) ==
    {p \in Perms(Len(S)) : \A c \in 1..(Len(S) - 1) : S[p[c]] <= S[p[c + 1]]}

\* np.argsort(S)[::-1]: an index order in which S is non-increasing; equal
\* values may come in any order (the default sort is not stable)
ArgsortDesc(S) ==
    {p \in Perms(Len(S)) : \A c \in 1..(Len(S) - 1) : S[p[c]] >= S[p[c + 1]]}

\* U[:, perm]
TakeCols(U, perm) ==
    [r \in 1..Len(U) |-> [c \in 1..Len(U) |-> U[r][perm[c]]]]

\* Vh[perm, :]
TakeRows(Vh, perm) == [r \in 1..Len(Vh) |-> Vh[perm[r]]]

\* the matrix g of which la.svd gives U, S, Vh: g = U diag(S) Vh
SvdOf(U, S, Vh) == DenseMul(DenseMul(U, Diag(S)), Vh)

\* the upper triangular factors R of invertible matrices: a diagonal without
\* zero, of either sign, and one value above it
UpperTriangular(n) ==
    {[r \in 1..n |-> [c \in 1..n |-> IF r = c THEN d[r] ELSE IF r < c THEN t ELSE 0]] :
        d \in [1..n -> ((-MaxEntry)..MaxEntry) \ {0}], t \in {-1, 0, 1}}

\* R / diag_R[:, np.newaxis]: row r divided by diag_R[r], each entry kept
\* as the fraction num / den
RowsDivided(R, diag_R) ==
    [r \in 1..Len(R) |-> [c \in 1..Len(R) |-> [num |-> R[r][c], den |-> diag_R[r]]]]

\* cartan_projection is called on g in GL(n,R) with any result U, S, Vh of
\* la.svd, the singular values positive and in any order; iwasawa_decomposition on M = Q R with any
\* result Q, R of la.qr
InitCartan ==
    /\ \/ \E n \in 2..MaxDim : \E U \in Orthogonal(n) : \E Vh \in Orthogonal(n) :
          \E S \in [1..n -> 1..MaxEntry] : \E b \in BOOLEAN :
             inp = [fn |-> "cartan_projection", return_decomposition |-> b,
                    g |-> SvdOf(U, S, Vh), U |-> U, S |-> S, Vh |-> Vh]
       \/ \E n \in 2..MaxDim : \E Q \in Orthogonal(n) : \E R \in UpperTriangular(n) :
             inp = [fn |-> "iwasawa_decomposition", M |-> DenseMul(Q, R), Q |-> Q, R |-> R]
    /\ pc = "entry"
    /\ out = NoValue
    /\ i = 0
    /\ j = 0
    /\ D = <<>>
    /\ calls = <<>>

\* cartan_projection(g, return_decomposition=True)
CartanDecomposition ==
    /\ pc = "entry"
    /\ inp.fn = "cartan_projection"
    /\ inp.return_decomposition
    /\ pc' = "done"
    /\ \E perm \in ArgsortDesc(inp.S) :
          out' = [kind |-> "decomposition",
                  K1   |-> TakeCols(inp.U, perm),
                  A    |-> Diag(SortDesc(inp.S)),
                  K2   |-> TakeRows(inp.Vh, perm)]
    /\ UNCHANGED <<inp, i, j, D, calls>>

\* cartan_projection(g): return log_S
CartanLog ==
    /\ pc = "entry"
    /\ inp.fn = "cartan_projection"
    /\ ~inp.return_decomposition
    /\ pc' = "done"
    /\ out' = [kind  |-> "log_S",
               log_S |-> Only({[c \in 1..Len(s) |-> FloatLog(s[c])] :
                                  s \in {SortDesc(inp.S)}})]
    /\ UNCHANGED <<inp, i, j, D, calls>>

\* iwasawa_decomposition(A)
CartanIwasawa ==
    /\ pc = "entry"
    /\ inp.fn = "iwasawa_decomposition"
    /\ pc' = "done"
    /\ out' = Only({[kind   |-> "iwasawa",
                     K      |-> inp.Q,
                     A_diag |-> Diag(diag_R),
                     N      |-> RowsDivided(inp.R, diag_R)] :
                        diag_R \in {[r \in 1..Len(inp.R) |-> Abs(inp.R[r][r])]}})
    /\ UNCHANGED <<inp, i, j, D, calls>>

NextCartan ==
    \/ CartanDecomposition
    \/ CartanLog
    \/ CartanIwasawa

SpecCartan == InitCartan /\ [][NextCartan]_vars

\* M is diagonal
IsDiagonal(M) ==
    \A r \in 1..Len(M) : \A c \in 1..Len(M) : r # c => M[r][c] = 0

\* C14: cartan_projection(g, return_decomposition=True) returns (K, A, K')
\* with A diagonal, its diagonal non-increasing, and K A K' = g, whatever the
\* order (ties included) in which the SVD gave the singular values.
C14_CartanReconstructs ==
    (pc = "done" /\ inp.fn = "cartan_projection" /\ inp.return_decomposition) =>
        /\ IsDiagonal(out.A)
        /\ \A c \in 1..(Len(out.A) - 1) : out.A[c][c] >= out.A[c + 1][c + 1]
        /\ DenseMul(DenseMul(out.K1, out.A), out.K2) = inp.g

\* singular values given out of order, two of them equal, and factors that
\* had to be rearranged
C14_Witness ==
    /\ pc = "done"
    /\ inp.fn = "cartan_projection"
    /\ inp.return_decomposition
    /\ Len(inp.S) = 3
    /\ inp.S[1] < inp.S[2]
    /\ inp.S[2] = inp.S[3]
    /\ out.K1 # inp.U
    /\ out.K2 # inp.Vh
    /\ DenseMul(DenseMul(out.K1, out.A), out.K2) = inp.g

\* C19: iwasawa_decomposition returns N upper triangular with every diagonal
\* entry equal to 1 and A diagonal with positive diagonal, also when R has a
\* negative diagonal entry.
C19_IwasawaUnitDiagonal ==
    (pc = "done" /\ inp.fn = "iwasawa_decomposition") =>
        /\ \A r \in 1..Len(out.N) : \A c \in 1..Len(out.N) :
              /\ r > c => out.N[r][c].num = 0
              /\ r = c => out.N[r][c].num = out.N[r][c].den
        /\ IsDiagonal(out.A_diag)
        /\ \A r \in 1..Len(out.A_diag) : out.A_diag[r][r] > 0

(***************************************************************************)
(* geodesic.py: analyze_embedding_quality                                  *)
(***************************************************************************)

\* The embeddings of the model are points on a line with integer
\* coordinates 0..MaxDist, so that their Euclidean distances are integers;
\* the distance matrices are those of compute_distance_matrix: symmetric,
\* zero on the diagonal, entries 0..MaxDist.  A correlation is kept as
\* num / sqrt(den2), the stress as sqrt(num / den), in integers.

\* np.triu_indices_from(distance_matrix, k=1)
UpperPairs(k) == {p \in (0..(k - 1)) \X (0..(k - 1)) : p[1] < p[2]}

DistanceMatrices(k) ==
    {[p \in (0..(k - 1)) \X (0..(k - 1)) |->
        IF p[1] < p[2] THEN u[p] ELSE IF p[1] > p[2] THEN u[<<p[2], p[1]>>] ELSE 0] :
        u \in [UpperPairs(k) -> 0..MaxDist]}

\* squareform(pdist(embedding)) for points on a line
EmbedDist(x) ==
    [p \in (0..(Len(x) - 1)) \X (0..(Len(x) - 1)) |-> Abs(x[p[1] + 1] - x[p[2] + 1])]

\* M[mask]
Masked(M, mask) == [p \in mask |-> M[p]]

\* scipy.stats.pearsonr(x, y) for at least two values: nan when x or y is
\* constant (the deviations of one of them are all zero, 0 / 0)
PearsonR(x, y) ==
    Only({IF c[1] = 0 \/ c[2] = 0 THEN [kind |-> "nan"]
          ELSE [kind |-> "r", num |-> c[3], den2 |-> c[1] * c[2]] :
            c \in {<<m * SumOver([p \in DOMAIN x |-> x[p] * x[p]], DOMAIN x)
                        - SumOver(x, DOMAIN x) * SumOver(x, DOMAIN x),
                     m * SumOver([p \in DOMAIN x |-> y[p] * y[p]], DOMAIN x)
                        - SumOver(y, DOMAIN x) * SumOver(y, DOMAIN x),
                     m * SumOver([p \in DOMAIN x |-> x[p] * y[p]], DOMAIN x)
                        - SumOver(x, DOMAIN x) * SumOver(y, DOMAIN x)>> :
                   m \in {Cardinality(DOMAIN x)}}})

\* twice the rank of every value, equal values sharing their average rank
Ranks(x) ==
    [p \in DOMAIN x |->
        2 * Cardinality({q \in DOMAIN x : x[q] < x[p]})
          + Cardinality({q \in DOMAIN x : x[q] = x[p]}) + 1]

\* scipy.stats.spearmanr(x, y): the Pearson correlation of the ranks
SpearmanR(x, y) == PearsonR(Ranks(x), Ranks(y))

\* np.sqrt(np.sum((orig_flat - embed_flat)**2) / np.sum(orig_flat**2)):
\* 0 / 0 is nan and x / 0 is inf for x > 0
Stress(orig, embed) ==
    Only({IF n[2] = 0 THEN [kind |-> IF n[1] = 0 THEN "nan" ELSE "inf"]
          ELSE [kind |-> "sqrt", num |-> n[1], den |-> n[2]] :
            n \in {<<SumOver([p \in DOMAIN orig |-> (orig[p] - embed[p]) * (orig[p] - embed[p])],
                             DOMAIN orig),
                     SumOver([p \in DOMAIN orig |-> orig[p] * orig[p]], DOMAIN orig)>>}})

\* np.abs(orig_flat - embed_flat)
Distortion(orig, embed) == [p \in DOMAIN orig |-> Abs(orig[p] - embed[p])]

\* np.mean(d), as the fraction num / den
Mean(d) == [num |-> SumOver(d, DOMAIN d), den |-> Cardinality(DOMAIN d)]

\* np.max(d)
Max(d) == CHOOSE v \in {d[p] : p \in DOMAIN d} : \A p \in DOMAIN d : d[p] <= v

InitQuality ==
    /\ inp \in  {[fn |-> "analyze_embedding_quality", k |-> Len(e[1]),
                  embedding |-> e[1], distance_matrix |-> e[2]] :
                    e \in UNION {[1..k -> 0..MaxDist] \X DistanceMatrices(k) : k \in 2..MaxK}}
    /\ pc = "entry"
    /\ out = NoValue
    /\ i = 0
    /\ j = 0
    /\ D = <<>>
    /\ calls = <<>>

\* analyze_embedding_quality with a single pair of points: pearsonr raises
\* ValueError (x and y must have length at least 2)
QualitySinglePair ==
    /\ pc = "entry"
    /\ Cardinality(UpperPairs(inp.k)) < 2
    /\ pc' = "raised"
    /\ out' = [kind |-> "ValueError"]
    /\ UNCHANGED <<inp, i, j, D, calls>>

\* analyze_embedding_quality with two pairs or more: the five metrics
QualityMetrics ==
    /\ pc = "entry"
    /\ Cardinality(UpperPairs(inp.k)) >= 2
    /\ pc' = "done"
    /\ out' = Only({[kind                 |-> "metrics",
                     pearson_correlation  |-> PearsonR(f[1], f[2]),
                     spearman_correlation |-> SpearmanR(f[1], f[2]),
                     normalized_stress    |-> Stress(f[1], f[2]),
                     mean_distortion      |-> Mean(Distortion(f[1], f[2])),
                     max_distortion       |-> Max(Distortion(f[1], f[2]))] :
                        f \in {<<Masked(inp.distance_matrix, UpperPairs(inp.k)),
                                 Masked(EmbedDist(inp.embedding), UpperPairs(inp.k))>>}})
    /\ UNCHANGED <<inp, i, j, D, calls>>

NextQuality ==
    \/ QualitySinglePair
    \/ QualityMetrics

SpecQuality == InitQuality /\ [][NextQuality]_vars

\* a correlation is a number in [-1, 1]
InUnitRange(r) == r.kind = "r" /\ r.num * r.num <= r.den2

\* C15: for every embedding and every symmetric zero-diagonal non-negative
\* distance matrix over k >= 2 points -- a single pair, equal or all-zero
\* source distances included -- the five metrics are returned with both
\* correlations in [-1, 1] and stress, mean and max distortion >= 0.
C15_MetricsInRange ==
    (pc # "entry") =>
        /\ pc = "done"
        /\ InUnitRange(out.pearson_correlation)
        /\ InUnitRange(out.spearman_correlation)
        /\ out.normalized_stress.kind # "nan"
        /\ out.mean_distortion.num >= 0
        /\ out.max_distortion >= 0

\* the embedding's distances are the entries of the distance matrix
Perfect == EmbedDist(inp.embedding) = inp.distance_matrix

\* C16: for a perfect embedding the stress, the mean distortion and the
\* maximal distortion are 0 and the Pearson correlation is 1.
C16_PerfectEmbedding ==
    (pc # "entry" /\ Perfect) =>
        /\ pc = "done"
        /\ out.normalized_stress.kind = "sqrt"
        /\ out.normalized_stress.num = 0
        /\ out.mean_distortion.num = 0
        /\ out.max_distortion = 0
        /\ out.pearson_correlation.kind = "r"
        /\ out.pearson_correlation.num > 0
        /\ out.pearson_correlation.num * out.pearson_correlation.num
              = out.pearson_correlation.den2

====
